---- MODULE Spec2Model ----
(***************************************************************************)
(* Model of the numeric core of vrc-pixie-emotes: the frame reducer        *)
(* (src/src/utils/frame_reducer.py, src/src/gif_processor.py), the sprite  *)
(* sheet generator (src/src/sprite_generator.py) and the colour optimizer  *)
(* (src/src/color_optimizer.py).                                           *)
(*                                                                         *)
(* A frame is represented by its identity (its position in the decoded     *)
(* sequence, 1-based); Python's 0-based index k is position k + 1 here.    *)
(* `call` records the last call made on the core and `ret` its outcome     *)
(* (status "ok" or the name of the exception that left the function).      *)
(* `ui` is the desktop window (src/ui/main_window.py): its fields, the      *)
(* handlers in progress (nested through root.update()) and the             *)
(* optimization worker threads.  `web` is the web bridge (src/eel_app.py):  *)
(* its STATE and the outcome of the last exposed function called.          *)
(***************************************************************************)
EXTENDS Integers, Sequences, FiniteSets, TLC

VARIABLES frames, image, call, ret, ui, web

vars == <<frames, image, call, ret, ui, web>>

(* ----------------------------- bounds --------------------------------- *)

\* most entries of a palette handed to apply_palette
MaxPaletteLen == 3

\* most pixels of an image drawn pixel by pixel
MaxPixels == 4

\* largest target_colors passed for such an image
MaxColors == 4

\* largest of the small frame widths and heights drawn
MaxSide == 12

\* longest frame sequence a caller loads
MaxFrames == 66

\* largest target_count / frame_count a caller passes
MaxTarget == 67

\* largest frame count determine_grid_layout is asked about
MaxLayoutCount == 70

\* largest removeEvery setting the web bridge is given
MaxKeep == 3

\* generation requests the desktop window handles in one run
MaxGenerations == 2

\* handlers of the desktop window in progress at once (one nested in the
\* root.update() of the other)
MaxDepth == 2

(* --------------------------- small helpers ----------------------------- *)

Min(a, b) == IF a < b THEN a ELSE b

Max(a, b) == IF a > b THEN a ELSE b

\* the elements of a sequence
Range(s) == {s[i] : i \in 1..Len(s)}

\* Python's s[:n] for n >= 0
Prefix(s, n) == SubSeq(s, 1, Min(n, Len(s)))

(***************************************************************************)
(* int(i * (a / b)) in IEEE-754 double arithmetic, as Python evaluates     *)
(* `step = a / b; frame_index = int(i * step)`.  The quotient a / b is     *)
(* rounded to a double before it is multiplied, so when i * a / b is an    *)
(* integer the product can come out one ulp below it and truncate to one   *)
(* less.  FloatShort lists every (i, a, b) with 1 <= b <= a <= 70 and      *)
(* 0 <= i <= b where that happens (computed with the interpreter's own     *)
(* arithmetic); everywhere else in that range the result is the exact      *)
(* floor.                                                                  *)
(***************************************************************************)
FloatShort ==
  {
    <<11,15,11>>, <<13,15,13>>, <<23,26,23>>, <<25,29,25>>, <<11,30,11>>,
    <<13,30,13>>, <<11,30,22>>, <<22,30,22>>, <<13,30,26>>, <<26,30,26>>,
    <<29,31,29>>, <<37,39,37>>, <<37,43,37>>, <<11,45,33>>, <<22,45,33>>,
    <<13,45,39>>, <<26,45,39>>, <<39,45,39>>, <<43,46,43>>, <<35,47,35>>,
    <<41,47,41>>, <<47,48,47>>, <<11,49,11>>, <<22,49,22>>, <<44,49,44>>,
    <<45,49,45>>, <<21,51,21>>, <<42,51,42>>, <<47,51,47>>, <<23,52,23>>,
    <<45,52,45>>, <<23,52,46>>, <<46,52,46>>, <<19,53,19>>, <<38,53,38>>,
    <<49,54,49>>, <<49,55,49>>, <<55,56,55>>, <<25,57,25>>, <<41,57,41>>,
    <<43,57,43>>, <<50,57,50>>, <<25,58,25>>, <<25,58,50>>, <<50,58,50>>,
    <<55,58,55>>, <<21,59,21>>, <<29,59,29>>, <<42,59,42>>, <<58,59,58>>,
    <<11,60,11>>, <<13,60,13>>, <<11,60,22>>, <<22,60,22>>, <<13,60,26>>,
    <<26,60,26>>, <<11,60,44>>, <<22,60,44>>, <<44,60,44>>, <<13,60,52>>,
    <<26,60,52>>, <<39,60,52>>, <<52,60,52>>, <<55,60,55>>, <<7,61,7>>,
    <<14,61,14>>, <<23,61,23>>, <<27,61,27>>, <<28,61,28>>, <<46,61,46>>,
    <<54,61,54>>, <<56,61,56>>, <<59,61,59>>, <<29,62,29>>, <<39,62,39>>,
    <<43,62,43>>, <<47,62,47>>, <<51,62,51>>, <<55,62,55>>, <<29,62,58>>,
    <<58,62,58>>, <<13,63,13>>, <<26,63,26>>, <<45,63,45>>, <<52,63,52>>,
    <<49,64,49>>, <<21,68,28>>, <<42,68,56>>, <<45,70,50>>
  }

\* int() taken as rounding to the nearest integer instead of truncation
IntOfScaled_round(i, a, b) ==
  (2 * i * a + b) \div (2 * b)

IntOfScaled(i, a, b) ==
  IF <<i, a, b>> \in FloatShort THEN (i * a) \div b - 1 ELSE (i * a) \div b

(* ---------------- FrameReducer (utils/frame_reducer.py) ---------------- *)

\* the keys of FrameReducer.strategies
Strategies == {"keep_ends", "uniform", "smart", "every_nth"}

Ok(v) == [status |-> "ok", value |-> v]

Raise(e) == [status |-> e, value |-> <<>>]

\* the loop of _reduce_keep_ends with `int(step)` for `int(i * step)`: every
\* slot picks the same input frame
RECURSIVE KeepEndsLoop_same_slot(_, _, _, _)
KeepEndsLoop_same_slot(fs, remaining, i, kept) ==
  IF i > remaining THEN kept
  ELSE LET frame_index == IntOfScaled(1, Len(fs) - 2, remaining)
       IN  KeepEndsLoop_same_slot(fs, remaining, i + 1,
             IF frame_index < Len(fs) - 1
               THEN Append(kept, fs[frame_index + 1])
               ELSE kept)

\* the loop `for i in range(1, remaining_frames + 1)` of _reduce_keep_ends
RECURSIVE KeepEndsLoop(_, _, _, _)
KeepEndsLoop(fs, remaining, i, kept) ==
  IF i > remaining THEN kept
  ELSE LET frame_index == IntOfScaled(i, Len(fs) - 2, remaining)
       IN  KeepEndsLoop(fs, remaining, i + 1,
             IF frame_index < Len(fs) - 1
               THEN Append(kept, fs[frame_index + 1])
               ELSE kept)

\* _reduce_keep_ends without its final `kept_frames.append(frames[-1])`
_reduce_keep_ends_no_last(fs, target_count) ==
  IF target_count < 2 THEN Ok(Prefix(fs, target_count))
  ELSE LET remaining == target_count - 2
       IN  Ok(IF remaining > 0
                THEN KeepEndsLoop(fs, remaining, 1, <<fs[1]>>)
                ELSE <<fs[1]>>)

_reduce_keep_ends(fs, target_count) ==
  IF target_count < 2 THEN Ok(Prefix(fs, target_count))
  ELSE LET remaining == target_count - 2
           kept == IF remaining > 0
                     THEN KeepEndsLoop(fs, remaining, 1, <<fs[1]>>)
                     ELSE <<fs[1]>>
       IN  Ok(Append(kept, fs[Len(fs)]))

\* the loop `for i in range(target_count)` of _reduce_uniform
RECURSIVE UniformLoop(_, _, _, _)
UniformLoop(fs, target_count, i, acc) ==
  IF i >= target_count THEN acc
  ELSE LET frame_index == IntOfScaled(i, Len(fs), target_count)
       IN  UniformLoop(fs, target_count, i + 1,
             IF frame_index < Len(fs)
               THEN Append(acc, fs[frame_index + 1])
               ELSE acc)

_reduce_uniform(fs, target_count) ==
  IF target_count >= Len(fs) THEN Ok(fs)
  ELSE IF target_count = 0 THEN Raise("ZeroDivisionError")
  ELSE Ok(UniformLoop(fs, target_count, 0, <<>>))

\* _reduce_smart delegating to the uniform reduction
_reduce_smart_uniform(fs, target_count) ==
  IF target_count >= Len(fs) THEN Ok(fs)
  ELSE _reduce_uniform(fs, target_count)

_reduce_smart(fs, target_count) ==
  IF target_count >= Len(fs) THEN Ok(fs)
  ELSE _reduce_keep_ends(fs, target_count)

\* the loop `for i in range(0, len(frames), nth)` of _reduce_every_nth
RECURSIVE EveryNthLoop(_, _, _, _, _)
EveryNthLoop(fs, target_count, nth, i, acc) ==
  IF i >= Len(fs) \/ Len(acc) >= target_count THEN acc
  ELSE EveryNthLoop(fs, target_count, nth, i + nth, Append(acc, fs[i + 1]))

\* _reduce_every_nth with the step rounded up instead of down
_reduce_every_nth_ceil(fs, target_count) ==
  IF target_count >= Len(fs) THEN Ok(fs)
  ELSE IF target_count = 0 THEN Raise("ZeroDivisionError")
  ELSE LET nth == Max(1, (Len(fs) + target_count - 1) \div target_count)
       IN  Ok(EveryNthLoop(fs, target_count, nth, 0, <<>>))

_reduce_every_nth(fs, target_count) ==
  IF target_count >= Len(fs) THEN Ok(fs)
  ELSE IF target_count = 0 THEN Raise("ZeroDivisionError")
  ELSE LET nth == Max(1, Len(fs) \div target_count)
       IN  Ok(EveryNthLoop(fs, target_count, nth, 0, <<>>))

\* reduce_frames with `len(frames) < target_count` for its early return
reduce_frames_strict(fs, target_count, strategy) ==
  IF Len(fs) < target_count THEN Ok(fs)
  ELSE IF strategy \notin Strategies THEN Raise("ValueError")
  ELSE CASE strategy = "keep_ends" -> _reduce_keep_ends(fs, target_count)
         [] strategy = "uniform"   -> _reduce_uniform(fs, target_count)
         [] strategy = "smart"     -> _reduce_smart(fs, target_count)
         [] strategy = "every_nth" -> _reduce_every_nth(fs, target_count)

reduce_frames(fs, target_count, strategy) ==
  IF Len(fs) <= target_count THEN Ok(fs)
  ELSE IF strategy \notin Strategies THEN Raise("ValueError")
  ELSE CASE strategy = "keep_ends" -> _reduce_keep_ends(fs, target_count)
         [] strategy = "uniform"   -> _reduce_uniform(fs, target_count)
         [] strategy = "smart"     -> _reduce_smart(fs, target_count)
         [] strategy = "every_nth" -> _reduce_every_nth(fs, target_count)

\* STATE.frame_reducer.remove_every(frames_initial, keep_r=...) as eel_app.py
\* calls it: class FrameReducer defines __init__, reduce_frames and the four
\* _reduce_* methods and no remove_every, so the attribute lookup fails
remove_every(fs, keep_r) == Raise("AttributeError")

(* ------------------- GIFProcessor (gif_processor.py) ------------------- *)

\* GIFProcessor carries its own copies of the two policies, line for line
\* the same as FrameReducer's (self.frames / self.total_frames for frames /
\* len(frames))
GIF_reduce_keep_ends(fs, target_count) == _reduce_keep_ends(fs, target_count)

GIF_reduce_uniform(fs, target_count) == _reduce_uniform(fs, target_count)

GIF_reduce_smart(fs, target_count) == GIF_reduce_keep_ends(fs, target_count)

GIF_reduce_frames(fs, target_count, strategy) ==
  IF Len(fs) <= target_count THEN Ok(fs)
  ELSE IF strategy = "keep_ends" THEN GIF_reduce_keep_ends(fs, target_count)
  ELSE IF strategy = "smart" THEN GIF_reduce_smart(fs, target_count)
  ELSE GIF_reduce_uniform(fs, target_count)

(* ------------- VRChatSpriteGenerator (sprite_generator.py) ------------- *)

SPRITE_SHEET_SIZE == <<1024, 1024>>

\* GRID_LAYOUTS with the 4x4 layout given the cell size of the 8x8 one
GRID_LAYOUTS_small_cell ==
  [key \in {4, 16, 64} |->
     CASE key = 4  -> <<2, 2, 512>>
       [] key = 16 -> <<4, 4, 128>>
       [] key = 64 -> <<8, 8, 128>>]

\* GRID_LAYOUTS[key] = (grid_width, grid_height, frame_size)
GRID_LAYOUTS ==
  [key \in {4, 16, 64} |->
     CASE key = 4  -> <<2, 2, 512>>
       [] key = 16 -> <<4, 4, 256>>
       [] key = 64 -> <<8, 8, 128>>]

\* determine_grid_layout with `<` for `<=` at the second tier
determine_grid_layout_strict(frame_count) ==
  IF frame_count <= 4 THEN GRID_LAYOUTS[4]
  ELSE IF frame_count < 16 THEN GRID_LAYOUTS[16]
  ELSE GRID_LAYOUTS[64]

determine_grid_layout(frame_count) ==
  IF frame_count <= 4 THEN GRID_LAYOUTS[4]
  ELSE IF frame_count <= 16 THEN GRID_LAYOUTS[16]
  ELSE GRID_LAYOUTS[64]

(***************************************************************************)
(* _resize_frame(frame, (cell, cell)) for a frame of size <<w, h>>.        *)
(* frame_ratio = w / h is a double; target_ratio is cell / cell = 1.0.     *)
(* In the wider branch new_height = int(cell / frame_ratio): the quotient  *)
(* of the quotient can fall one ulp below an exact integer and truncate to *)
(* one less; ResizeShort lists the (cell, w, h) of the sizes drawn here    *)
(* where it does.  In the other branch cell * frame_ratio is a product by  *)
(* a power of two and truncates to the exact floor.  Image.resize raises   *)
(* ValueError ("height and width must be > 0") for a size with a zero.     *)
(* The outcome gives the resized size and the centering offset.            *)
(***************************************************************************)
ResizeShort == {<<512, 128, 93>>, <<512, 256, 93>>, <<256, 128, 93>>, <<256, 256, 93>>, <<128, 128, 93>>}

\* the comparison of the two ratios taken the wrong way round: the frame is
\* scaled to the cell along its shorter side
NewSize_swapped(w, h, cell) ==
  IF w < h
    THEN <<cell, (cell * h) \div w>>
    ELSE <<(cell * w) \div h, cell>>

NewSize(w, h, cell) ==
  IF w > h
    THEN <<cell, IF <<cell, w, h>> \in ResizeShort
                   THEN (cell * h) \div w - 1 ELSE (cell * h) \div w>>
    ELSE <<(cell * w) \div h, cell>>

\* _resize_frame with the subtraction of the centring the wrong way round
_resize_frame_reversed(size, cell) ==
  LET new == NewSize(size[1], size[2], cell)
  IN  IF new[1] < 1 \/ new[2] < 1
        THEN [status |-> "ValueError", size |-> new, offset |-> <<>>]
        ELSE [status |-> "ok", size |-> new,
              offset |-> <<(new[1] - cell) \div 2, (new[2] - cell) \div 2>>]

_resize_frame(size, cell) ==
  LET new == NewSize(size[1], size[2], cell)
  IN  IF new[1] < 1 \/ new[2] < 1
        THEN [status |-> "ValueError", size |-> new, offset |-> <<>>]
        ELSE [status |-> "ok", size |-> new,
              offset |-> <<(cell - new[1]) \div 2, (cell - new[2]) \div 2>>]

\* one iteration of the placement loop: the paste of frames[i] (0-based i)
Placement(fs, i, grid_width, frame_size) ==
  LET row == i \div grid_width
      col == i % grid_width
  IN  [frame |-> fs[i + 1], x |-> col * frame_size, y |-> row * frame_size,
       cell |-> frame_size]

SheetError == [status |-> "ValueError", size |-> <<>>, layout |-> <<>>,
               value |-> <<>>]

\* create_sprite_sheet whose placement loop stops one frame early
create_sprite_sheet_short(fs, given, frame_count_arg, size) ==
  IF Len(fs) = 0 THEN SheetError
  ELSE LET fc0 == IF given THEN frame_count_arg ELSE Len(fs)
           frame_count == Min(fc0, Len(fs))
           layout == determine_grid_layout(frame_count)
       IN  IF frame_count >= 1 /\ _resize_frame(size, layout[3]).status # "ok"
             THEN SheetError
             ELSE [status |-> "ok", size |-> SPRITE_SHEET_SIZE,
                   layout |-> layout,
                   value |-> [k \in 1..Max(frame_count - 1, 0) |->
                                Placement(fs, k - 1, layout[1], layout[3])]]

\* create_sprite_sheet(frames, frame_count) for frames of the common size
\* `size`; given = FALSE is frame_count=None.  The outcome lists the canvas
\* size and the paste calls in order; the ValueError of a resize in the loop
\* (the same for every frame, as they share their size) leaves the function.
create_sprite_sheet(fs, given, frame_count_arg, size) ==
  IF Len(fs) = 0 THEN SheetError
  ELSE LET fc0 == IF given THEN frame_count_arg ELSE Len(fs)
           frame_count == Min(fc0, Len(fs))
           layout == determine_grid_layout(frame_count)
       IN  IF frame_count >= 1 /\ _resize_frame(size, layout[3]).status # "ok"
             THEN SheetError
             ELSE [status |-> "ok", size |-> SPRITE_SHEET_SIZE,
                   layout |-> layout,
                   value |-> [k \in 1..Max(frame_count, 0) |->
                                Placement(fs, k - 1, layout[1], layout[3])]]

\* get_sprite_sheet_info(frame_count): the entries computed from the layout
get_sprite_sheet_info(frame_count) ==
  LET layout == determine_grid_layout(frame_count)
      total_cells == layout[1] * layout[2]
  IN  [frame_count |-> frame_count, grid_width |-> layout[1],
       grid_height |-> layout[2], frame_size |-> layout[3],
       total_cells |-> total_cells,
       unused_cells |-> total_cells - frame_count,
       sprite_sheet_size |-> SPRITE_SHEET_SIZE]

(* ------------------ ColorOptimizer (color_optimizer.py) ---------------- *)

(***************************************************************************)
(* An image is the sequence of its RGBA pixels in getdata() order.  The    *)
(* clustering runs on float32 arrays; here a centroid is the exact         *)
(* rational mean s / n of its members (s the channel sums, n the member    *)
(* count) and distances are compared exactly, nearest centroid of lowest   *)
(* index first as np.argmin does.  Seeded random draws (random.sample,     *)
(* np.random.choice) are a choice among all the draws the call can make.   *)
(***************************************************************************)

\* max_pixels_per_frame in _kmeans_clustering
max_pixels_per_frame == 10000

\* max_colors_per_frame in _simple_color_sampling
max_colors_per_frame == 5000

max_iterations == 50

\* tolerance = 1e-3, as the denominator of 1 / 1000
tolerance_inverse == 1000

Abs(x) == IF x < 0 THEN -x ELSE x

\* analyze_colors([image])['unique_colors']
unique_colors(img) == Cardinality(Range(img))

\* the one-to-one sequences of k indices into 1..n
Draws(n, k) ==
  {d \in [1..k -> 1..n] : \A i, j \in 1..k : d[i] = d[j] => i = j}

\* the pixel lists the per-frame sampling can hand on: the whole image, or
\* cap of its pixels when it has more
Sampled(img, cap) ==
  IF Len(img) <= cap THEN {img}
  ELSE {[i \in 1..cap |-> img[d[i]]] : d \in Draws(Len(img), cap)}

Centroid(p) == [s |-> p, n |-> 1]

\* squared distance over all 4 channels from pixel p to centroid c, times c.n^2
Dist4(p, c) ==
  (p[1] * c.n - c.s[1]) * (p[1] * c.n - c.s[1])
  + (p[2] * c.n - c.s[2]) * (p[2] * c.n - c.s[2])
  + (p[3] * c.n - c.s[3]) * (p[3] * c.n - c.s[3])
  + (p[4] * c.n - c.s[4]) * (p[4] * c.n - c.s[4])

\* p is strictly nearer to c than to d
Nearer4(p, c, d) == Dist4(p, c) * d.n * d.n < Dist4(p, d) * c.n * c.n

\* np.argmin(distances, axis=1) for one pixel: the first nearest centroid
Assignment(p, centroids) ==
  CHOOSE i \in 1..Len(centroids) :
    /\ \A j \in 1..(i - 1) : Nearer4(p, centroids[i], centroids[j])
    /\ \A j \in (i + 1)..Len(centroids) :
         ~Nearer4(p, centroids[j], centroids[i])

RECURSIVE SumPixels(_, _, _)
SumPixels(pixels, members, acc) ==
  IF members = {} THEN acc
  ELSE LET x == CHOOSE m \in members : TRUE
           p == pixels[x]
       IN  SumPixels(pixels, members \ {x},
                     <<acc[1] + p[1], acc[2] + p[2], acc[3] + p[3],
                       acc[4] + p[4]>>)

\* the centroid update of one iteration
NewCentroids(pixels, centroids) ==
  [i \in 1..Len(centroids) |->
     LET members == {x \in 1..Len(pixels) :
                       Assignment(pixels[x], centroids) = i}
     IN  IF members # {}
           THEN [s |-> SumPixels(pixels, members, <<0, 0, 0, 0>>),
                 n |-> Cardinality(members)]
           ELSE centroids[i]]

\* np.max(np.abs(new_centroids - centroids)) < tolerance
Converged(new, old) ==
  \A i \in 1..Len(old) : \A j \in 1..4 :
    tolerance_inverse * Abs(new[i].s[j] * old[i].n - old[i].s[j] * new[i].n)
      < new[i].n * old[i].n

\* the loop `for iteration in range(max_iterations)`; on convergence it
\* breaks before `centroids = new_centroids`.  (new ranges over a singleton
\* so that the update is evaluated once per iteration.)
RECURSIVE KMeansLoop(_, _, _)
KMeansLoop(pixels, centroids, iteration) ==
  IF iteration >= max_iterations THEN centroids
  ELSE CHOOSE result \in
         {IF Converged(new, centroids) THEN centroids
          ELSE KMeansLoop(pixels, new, iteration + 1)
          : new \in {NewCentroids(pixels, centroids)}} : TRUE

\* int(round(s / n)) for s >= 0: round half to even
RoundHalfEven(s, n) ==
  LET q == s \div n
      r == s % n
  IN  IF 2 * r < n THEN q
      ELSE IF 2 * r > n THEN q + 1
      ELSE IF q % 2 = 0 THEN q ELSE q + 1

PaletteOf(centroids) ==
  [i \in 1..Len(centroids) |->
     [j \in 1..4 |-> RoundHalfEven(centroids[i].s[j], centroids[i].n)]]

\* the orderings list(set) can give the colours of S
Orderings(S) ==
  {o \in [1..Cardinality(S) -> S] :
     \A i, j \in 1..Cardinality(S) : o[i] = o[j] => i = j}

\* _simple_color_sampling([img], k): every palette it can return
_simple_color_sampling(img, k) ==
  UNION {
    LET unique == Range(pixels)
    IN  IF unique = {} THEN {Ok(<<<<0, 0, 0, 255>>>>)}
        ELSE {IF Len(color_list) <= k THEN Ok(color_list)
              ELSE LET step == Len(color_list) \div k
                       kept == {i \in 0..(k - 1) : i * step < Len(color_list)}
                   IN  Ok([i \in 1..Cardinality(kept) |->
                             color_list[(i - 1) * step + 1]])
              : color_list \in Orderings(unique)}
    : pixels \in Sampled(img, max_colors_per_frame)}

\* _kmeans_clustering that initialises k + 1 centroids
_kmeans_clustering_extra(img, k, fails) ==
  LET n == Min(Len(img), max_pixels_per_frame)
  IN  IF n = 0 THEN {Ok(<<<<0, 0, 0, 255>>>>)}
      ELSE IF k > n THEN {Raise("ValueError")}
      ELSE IF fails THEN _simple_color_sampling(img, k)
      ELSE {Ok(PaletteOf(KMeansLoop(pixels,
                                    [i \in 1..(k + 1) |->
                                       Centroid(pixels[d[i]])],
                                    0)))
            : pixels \in Sampled(img, max_pixels_per_frame),
              d \in Draws(n, k + 1)}

\* _kmeans_clustering([img], k): every outcome it can have.  fails = TRUE is
\* an exception raised inside the try block, which the handler answers with
\* the fallback sampling.
_kmeans_clustering(img, k, fails) ==
  LET n == Min(Len(img), max_pixels_per_frame)
  IN  IF n = 0 THEN {Ok(<<<<0, 0, 0, 255>>>>)}
      ELSE IF k > n THEN {Raise("ValueError")}
      ELSE IF fails THEN _simple_color_sampling(img, k)
      ELSE {Ok(PaletteOf(KMeansLoop(pixels,
                                    [i \in 1..k |-> Centroid(pixels[d[i]])],
                                    0)))
            : pixels \in Sampled(img, max_pixels_per_frame),
              d \in Draws(n, k)}

\* create_optimized_palette([img], target_colors); the palette returned
\* without clustering is analysis['all_colors'], the image's colours in the
\* order getcolors() lists them
create_optimized_palette(img, target_colors, fails) ==
  IF unique_colors(img) <= target_colors
    THEN {Ok(o) : o \in Orderings(Range(img))}
  ELSE _kmeans_clustering(img, target_colors, fails)

\* Dist3 taken over all four channels
Dist3_with_alpha(p, e) ==
  (p[1] - e[1]) * (p[1] - e[1]) + (p[2] - e[2]) * (p[2] - e[2])
  + (p[3] - e[3]) * (p[3] - e[3]) + (p[4] - e[4]) * (p[4] - e[4])

\* squared distance over the R, G, B channels from pixel p to palette entry e
Dist3(p, e) ==
  (p[1] - e[1]) * (p[1] - e[1]) + (p[2] - e[2]) * (p[2] - e[2])
  + (p[3] - e[3]) * (p[3] - e[3])

\* np.argmin(distances, axis=1) for one pixel of apply_palette
Closest(p, palette) ==
  CHOOSE i \in 1..Len(palette) :
    /\ \A j \in 1..(i - 1) : Dist3(p, palette[i]) < Dist3(p, palette[j])
    /\ \A j \in (i + 1)..Len(palette) :
         Dist3(p, palette[i]) <= Dist3(p, palette[j])

apply_palette(img, palette) ==
  [x \in 1..Len(img) |-> palette[Closest(img[x], palette)]]

ColorRet(status, img, palette) ==
  [status |-> status, size |-> <<>>, layout |-> <<>>, value |-> img,
   palette |-> palette]

\* optimize_sprite_sheet with `<` for `<=` in its "no optimization needed"
\* test
optimize_sprite_sheet_strict(img, target_colors, fails) ==
  IF unique_colors(img) < target_colors THEN {ColorRet("ok", img, <<>>)}
  ELSE {IF r.status = "ok"
          THEN ColorRet("ok", apply_palette(img, r.value), r.value)
          ELSE ColorRet(r.status, <<>>, <<>>)
        : r \in create_optimized_palette(img, target_colors, fails)}

\* optimize_sprite_sheet(img, target_colors): every outcome it can have
optimize_sprite_sheet(img, target_colors, fails) ==
  IF unique_colors(img) <= target_colors THEN {ColorRet("ok", img, <<>>)}
  ELSE {IF r.status = "ok"
          THEN ColorRet("ok", apply_palette(img, r.value), r.value)
          ELSE ColorRet(r.status, <<>>, <<>>)
        : r \in create_optimized_palette(img, target_colors, fails)}

\* get_optimization_stats with the subtraction the wrong way round
get_optimization_stats_swapped(original_image, optimized_image) ==
  LET original_colors == unique_colors(original_image)
      optimized_colors == unique_colors(optimized_image)
  IN  [original_colors |-> original_colors,
       optimized_colors |-> optimized_colors,
       color_reduction |-> optimized_colors - original_colors,
       original_bits |-> IF original_colors <= 256 THEN 8 ELSE 24,
       optimized_bits |-> IF optimized_colors <= 256 THEN 8 ELSE 24]

\* get_optimization_stats: the colour counts of the two analyses, their
\* difference and the two colour depths size_reduction_percent is made of
get_optimization_stats(original_image, optimized_image) ==
  LET original_colors == unique_colors(original_image)
      optimized_colors == unique_colors(optimized_image)
  IN  [original_colors |-> original_colors,
       optimized_colors |-> optimized_colors,
       color_reduction |-> original_colors - optimized_colors,
       original_bits |-> IF original_colors <= 256 THEN 8 ELSE 24,
       optimized_bits |-> IF optimized_colors <= 256 THEN 8 ELSE 24]

(* ----------------------------- the calls ------------------------------- *)

NoCall == [op |-> "none", given |-> FALSE, count |-> 0, strategy |-> "",
           size |-> <<>>, input |-> <<>>]

NoRet == [status |-> "none", size |-> <<>>, layout |-> <<>>, value |-> <<>>,
          palette |-> <<>>]

\* outcome of a reducer call in the common shape of ret
RetOf(r) == [status |-> r.status, size |-> <<>>, layout |-> <<>>,
             value |-> r.value, palette |-> <<>>]

\* strategy names a caller may pass: the four known ones, the "none" the
\* front ends offer, and a misspelt one
StrategyNames == Strategies \cup {"none", "bogus"}

\* the strategy values the desktop window's combobox and the command line's
\* --strategy option offer
OfferedStrategies == {"none", "keep_ends", "uniform", "smart", "every_nth"}

\* the colours the small images are drawn from: opaque and transparent
\* black (same RGB, different alpha), pure red and a mixed colour
PixelColors ==
  {<<0, 0, 0, 255>>, <<0, 0, 0, 0>>, <<255, 0, 0, 255>>, <<10, 20, 30, 255>>}

\* an image with more pixels than the sampling cap, every pixel of a colour
\* of its own
LargeImage ==
  [i \in 1..(max_pixels_per_frame + 2) |-> <<i % 256, i \div 256, 0, 255>>]

\* target_colors drawn for an image; above the sampling cap only a target
\* above the cap is drawn (the clustering of 10,000 sampled pixels is not
\* enumerated)
TargetsFor(img) ==
  IF Len(img) > max_pixels_per_frame THEN {max_pixels_per_frame + 1}
  ELSE 1..MaxColors

(* ------------- MainWindow (ui/main_window.py): the state --------------- *)

\* self.current_sprite_sheet = None
NoSheet == [gen |-> 0, gif |-> 0, optimized |-> FALSE]

\* self.current_frames = []
NoGif == [id |-> 0, len |-> 0, size |-> <<>>]

\* the GIF files a user opens: their frame count and frame size
Gifs ==
  { [id |-> 1, len |-> 3, size |-> <<100, 100>>],
    [id |-> 2, len |-> 8, size |-> <<200, 100>>],
    [id |-> 3, len |-> 2, size |-> <<600, 1>>] }

\* the decoded frames of a GIF
FramesOf(gif) == [i \in 1..gif.len |-> i]

\* the thread of optimize_with_timeout: not created, started, running on
\* the sheet it read (input), finished (result[0] set) or raised (error[0])
NoWorker == [state |-> "none", input |-> NoSheet]

\* what optimize_sprite_sheet makes of a sheet
Optimized(sheet) == [sheet EXCEPT !.optimized = TRUE]

\* how the last generation that returned ended
NoLast == [gen |-> 0, how |-> "none", expired |-> FALSE,
           atlas |-> NoSheet, status |-> ""]

\* the file the last save wrote: the sheet, and the GIF loaded at that time
NoSaved == [sheet |-> NoSheet, frames |-> 0]

\* MainWindow.__init__
UIInit ==
  [current_frames |-> NoGif, current_sprite_sheet |-> NoSheet,
   status |-> "", generate_btn |-> "disabled", save_btn |-> "disabled",
   stack |-> <<>>, worker |-> [g \in 1..MaxGenerations |-> NoWorker],
   gens |-> 0, last |-> NoLast, saved |-> NoSaved]

(* ------------------- the web bridge (eel_app.py): STATE ---------------- *)

\* a sheet: the GIF it was made of, the frames placed, optimized or not
\* (STATE.current_sprite_sheet = None)
NoWebSheet == [gif |-> 0, count |-> 0, optimized |-> FALSE]

\* the settings of a generate_sprite_sheet call (frameCount 0: absent)
NoSettings ==
  [frameCount |-> 0, removeEvery |-> 0, optimize |-> FALSE, fps |-> 0]

\* AppState.__init__ (None is 0), and no exposed function called yet
WebInit ==
  [current_frames |-> NoGif, current_sprite_sheet |-> NoWebSheet,
   last_frame_count |-> 0, last_fps |-> 0,
   op |-> "none", gif |-> 0, settings |-> NoSettings, result |-> "",
   saved |-> NoWebSheet]

Init ==
  /\ frames = <<>>
  /\ image = <<>>
  /\ call = NoCall
  /\ ret = NoRet
  /\ ui = UIInit
  /\ web = WebInit

\* widths and heights of the frames handed to _resize_frame: the small ones
\* and some around and beyond the cell sizes
FrameSides == 1..MaxSide \cup {93, 100, 128, 129, 200, 256, 513, 600, 1024}

\* the common size of the frames handed to create_sprite_sheet: square,
\* wide, and so flat or so narrow that a resized side truncates to 0
SheetFrameSizes == {<<100, 100>>, <<200, 100>>, <<200, 1>>, <<600, 1>>,
                    <<1, 600>>}

\* The core is synchronous and single-threaded: a call is made when no other
\* call is in progress (Idle), and its outcome is held in ret until the
\* caller has taken it (Return).
Idle == call.op = "none"

\* a decoded sequence of n frames is handed to the core
LoadFrames ==
  /\ Idle
  /\ \E n \in 0..MaxFrames :
       /\ frames' = [i \in 1..n |-> i]
       /\ call' = NoCall
       /\ ret' = NoRet
       /\ UNCHANGED <<image, ui, web>>

ReduceFrames ==
  /\ Idle
  /\ \E t \in 0..MaxTarget, s \in StrategyNames :
       /\ call' = [op |-> "reduce_frames", given |-> TRUE, count |-> t,
                   strategy |-> s, size |-> <<>>, input |-> <<>>]
       /\ ret' = RetOf(reduce_frames(frames, t, s))
       /\ UNCHANGED <<frames, image, ui, web>>

GifReduceFrames ==
  /\ Idle
  /\ \E t \in 0..MaxTarget, s \in StrategyNames :
       /\ call' = [op |-> "gif_reduce_frames", given |-> TRUE, count |-> t,
                   strategy |-> s, size |-> <<>>, input |-> <<>>]
       /\ ret' = RetOf(GIF_reduce_frames(frames, t, s))
       /\ UNCHANGED <<frames, image, ui, web>>

\* the pre-filter step of the web bridge's generate_sprite_sheet
\* (reached with a GIF loaded) asks the reducer only when removeEvery > 0,
\* otherwise the loaded frames go on
RemoveEvery ==
  /\ Idle
  /\ frames # <<>>
  /\ \E r \in 0..MaxKeep :
       /\ call' = [op |-> "remove_every", given |-> TRUE, count |-> r,
                   strategy |-> "", size |-> <<>>, input |-> <<>>]
       /\ ret' = RetOf(IF r > 0 THEN remove_every(frames, r) ELSE Ok(frames))
       /\ UNCHANGED <<frames, image, ui, web>>

DetermineGridLayout ==
  /\ Idle
  /\ \E n \in 0..MaxLayoutCount :
       /\ call' = [op |-> "determine_grid_layout", given |-> TRUE, count |-> n,
                   strategy |-> "", size |-> <<>>, input |-> <<>>]
       /\ ret' = [status |-> "ok", size |-> <<>>,
                  layout |-> determine_grid_layout(n), value |-> <<>>,
                  palette |-> <<>>]
       /\ UNCHANGED <<frames, image, ui, web>>

\* get_sprite_sheet_info as its callers reach it: quick_start.py with the
\* count it validated (1..64), the desktop window's _update_sprite_info with
\* the value of the frame count box, which _update_gif_info sets to the
\* GIF's total frame count, whatever it is
GetSpriteSheetInfo ==
  /\ Idle
  /\ \E n \in 1..MaxLayoutCount :
       /\ call' = [op |-> "get_sprite_sheet_info", given |-> TRUE,
                   count |-> n, strategy |-> "", size |-> <<>>,
                   input |-> <<>>]
       /\ ret' = [status |-> "ok", size |-> SPRITE_SHEET_SIZE,
                  layout |-> determine_grid_layout(n),
                  value |-> get_sprite_sheet_info(n), palette |-> <<>>]
       /\ UNCHANGED <<frames, image, ui, web>>

CreateSpriteSheet ==
  /\ Idle
  /\ \E given \in BOOLEAN, n \in 0..MaxTarget, size \in SheetFrameSizes :
       /\ given \/ n = 0
       /\ call' = [op |-> "create_sprite_sheet", given |-> given, count |-> n,
                   strategy |-> "", size |-> size, input |-> <<>>]
       /\ ret' = LET r == create_sprite_sheet(frames, given, n, size)
                  IN  [status |-> r.status, size |-> r.size,
                       layout |-> r.layout, value |-> r.value,
                       palette |-> <<>>]
       /\ UNCHANGED <<frames, image, ui, web>>

\* _resize_frame on a frame of size <<w, h>> for a cell of one of the layouts
ResizeFrame ==
  /\ Idle
  /\ \E w \in FrameSides, h \in FrameSides, key \in DOMAIN GRID_LAYOUTS :
       LET r == _resize_frame(<<w, h>>, GRID_LAYOUTS[key][3])
       IN  /\ call' = [op |-> "_resize_frame", given |-> TRUE,
                       count |-> GRID_LAYOUTS[key][3], strategy |-> "",
                       size |-> <<w, h>>, input |-> <<>>]
           /\ ret' = [status |-> r.status, size |-> r.size, layout |-> <<>>,
                      value |-> r.offset, palette |-> <<>>]
           /\ UNCHANGED <<frames, image, ui, web>>

\* the caller takes the outcome; the core keeps nothing of the call
Return ==
  /\ ~Idle
  /\ call' = NoCall
  /\ ret' = NoRet
  /\ UNCHANGED <<frames, image, ui, web>>

Next ==
  \/ LoadFrames
  \/ ReduceFrames
  \/ GifReduceFrames
  \/ RemoveEvery
  \/ DetermineGridLayout
  \/ GetSpriteSheetInfo
  \/ CreateSpriteSheet
  \/ ResizeFrame
  \/ Return

Spec == Init /\ [][Next]_vars

\* an image is handed to the optimizer
LoadImage ==
  /\ Idle
  /\ \E img \in UNION {[1..n -> PixelColors] : n \in 0..MaxPixels}
                 \cup {LargeImage} :
       /\ image' = img
       /\ call' = NoCall
       /\ ret' = NoRet
       /\ UNCHANGED <<frames, ui, web>>

OptimizeSpriteSheet ==
  /\ Idle
  /\ \E k \in TargetsFor(image), fails \in BOOLEAN :
       \E r \in optimize_sprite_sheet(image, k, fails) :
         /\ call' = [op |-> "optimize_sprite_sheet", given |-> TRUE,
                     count |-> k, strategy |-> "", size |-> <<>>, input |-> <<>>]
         /\ ret' = r
         /\ UNCHANGED <<frames, image, ui, web>>

\* the caller passes the image a successful optimize_sprite_sheet returned
\* to it again, with the same target
OptimizeAgain ==
  /\ call.op = "optimize_sprite_sheet"
  /\ ret.status = "ok"
  /\ \E fails \in BOOLEAN :
       \E r \in optimize_sprite_sheet(ret.value, call.count, fails) :
         /\ call' = [op |-> "optimize_again", given |-> TRUE,
                     count |-> call.count, strategy |-> "", size |-> <<>>,
                     input |-> ret.value]
         /\ ret' = r
         /\ UNCHANGED <<frames, image, ui, web>>

CreateOptimizedPalette ==
  /\ Idle
  /\ \E k \in TargetsFor(image), fails \in BOOLEAN :
       \E r \in create_optimized_palette(image, k, fails) :
         /\ call' = [op |-> "create_optimized_palette", given |-> TRUE,
                     count |-> k, strategy |-> "", size |-> <<>>,
                     input |-> <<>>]
         /\ ret' = ColorRet(r.status, <<>>, r.value)
         /\ UNCHANGED <<frames, image, ui, web>>

\* the palettes handed to apply_palette: non-empty lists of colours, which
\* may repeat a colour or hold two entries of the same RGB
Palettes == UNION {[1..n -> PixelColors] : n \in 1..MaxPaletteLen}

\* palettes drawn for an image; the image above the sampling cap is there
\* for the cap only and gets none
PalettesFor(img) ==
  IF Len(img) > max_pixels_per_frame THEN {} ELSE Palettes

ApplyPalette ==
  /\ Idle
  /\ \E palette \in PalettesFor(image) :
       /\ call' = [op |-> "apply_palette", given |-> TRUE,
                   count |-> Len(palette), strategy |-> "", size |-> <<>>,
                   input |-> palette]
       /\ ret' = ColorRet("ok", apply_palette(image, palette), palette)
       /\ UNCHANGED <<frames, image, ui, web>>

\* the caller asks for the statistics of the image a successful
\* optimize_sprite_sheet returned to it (test_app.py lines 147-152)
GetOptimizationStats ==
  /\ call.op = "optimize_sprite_sheet"
  /\ ret.status = "ok"
  /\ call' = [call EXCEPT !.op = "get_optimization_stats",
                          !.input = ret.value]
  /\ ret' = [status |-> "ok", size |-> <<>>, layout |-> <<>>,
             value |-> get_optimization_stats(image, ret.value),
             palette |-> <<>>]
  /\ UNCHANGED <<frames, image, ui, web>>

NextColor ==
  \/ LoadImage
  \/ OptimizeSpriteSheet
  \/ OptimizeAgain
  \/ GetOptimizationStats
  \/ CreateOptimizedPalette
  \/ ApplyPalette
  \/ Return

SpecColor == Init /\ [][NextColor]_vars

(* ------------ MainWindow (ui/main_window.py): the handlers ------------- *)

(***************************************************************************)
(* Tk runs one handler at a time, but a handler that calls root.update()   *)
(* lets Tk run the handlers of the pending events inside that call: the    *)
(* handlers in progress form a stack, only the top one advances, and a new *)
(* one starts when the stack is empty (mainloop) or its top is inside a    *)
(* root.update().  A worker thread advances at any time.                   *)
(***************************************************************************)

Top == ui.stack[Len(ui.stack)]

Popped == SubSeq(ui.stack, 1, Len(ui.stack) - 1)

\* the positions of a handler that are inside a root.update() call
UpdatePoints ==
  {"update1", "update2", "update3", "wait", "load_update", "save_update"}

\* Tk can dispatch a pending event
Dispatchable == IF ui.stack = <<>> THEN TRUE ELSE Top.pc \in UpdatePoints

\* the values of the frame count box (0 for "All"), the fps box, the
\* strategy box and the optimize check box a generation may read
FrameCountSettings == {0, 2, 65}

FpsSettings == {10, 61}

UIStrategies == {"none", "keep_ends"}

AtTop(kind, pc) ==
  IF ui.stack = <<>> THEN FALSE ELSE Top.kind = kind /\ Top.pc = pc

\* the window after a _generate_sprite_sheet call has returned
Returned(u, how, status) ==
  [u EXCEPT !.stack = Popped,
            !.status = status,
            !.last = [gen |-> Top.gen, how |-> how, expired |-> Top.expired,
                      atlas |-> Top.atlas, status |-> status]]

\* lines 676-684: preview, save button, status
Completed(u, how) ==
  [Returned(u, how, "Sprite sheet generated successfully")
     EXCEPT !.save_btn = "normal"]

\* lines 686-688: the handler's `except Exception`
Failed(u) == Returned(u, "failed", "Error generating sprite sheet")

\* the Browse handler reaches _load_gif: status, then root.update()
StartLoad ==
  /\ Dispatchable
  /\ Len(ui.stack) < MaxDepth
  /\ \E g \in Gifs :
       ui' = [ui EXCEPT !.status = "Loading GIF...",
                        !.stack = Append(@, [kind |-> "load", gen |-> 0,
                                    pc |-> "load_update", gif |-> g,
                                    reduced |-> <<>>, count |-> 0,
                                    optimize |-> FALSE, atlas |-> NoSheet,
                                    expired |-> FALSE])]
  /\ UNCHANGED <<frames, image, call, ret, web>>

\* the rest of _load_gif: the file is decoded, or GIFProcessor raises and
\* nothing but the status changes
FinishLoad ==
  /\ AtTop("load", "load_update")
  /\ \E loaded \in BOOLEAN :
       ui' = IF loaded
               THEN [ui EXCEPT !.stack = Popped,
                               !.current_frames = Top.gif,
                               !.generate_btn = "normal",
                               !.status = "GIF loaded successfully"]
               ELSE [ui EXCEPT !.stack = Popped,
                               !.status = "Error loading GIF"]
  /\ UNCHANGED <<frames, image, call, ret, web>>

\* the Generate button's handler starts (lines 590-597)
StartGenerate ==
  /\ Dispatchable
  /\ Len(ui.stack) < MaxDepth
  /\ ui.gens < MaxGenerations
  /\ ui.generate_btn = "normal"
  /\ ui.current_frames.len > 0
  /\ ui' = [ui EXCEPT !.status = "Generating sprite sheet...",
                      !.gens = @ + 1,
                      !.stack = Append(@, [kind |-> "generate",
                                  gen |-> ui.gens + 1, pc |-> "update1",
                                  gif |-> NoGif, reduced |-> <<>>,
                                  count |-> 0, optimize |-> FALSE,
                                  atlas |-> NoSheet, expired |-> FALSE])]
  /\ UNCHANGED <<frames, image, call, ret, web>>

\* lines 599-626: the settings are read and validated, the frames reduced
ReadSettings ==
  /\ AtTop("generate", "update1")
  /\ \E fc \in FrameCountSettings, fps \in FpsSettings,
        strategy \in UIStrategies, optimize_colors \in BOOLEAN :
       LET fs == FramesOf(ui.current_frames)
           frame_count == IF fc = 0 THEN Len(fs) ELSE fc
           reduced == IF frame_count < Len(fs)
                        THEN reduce_frames(fs, frame_count, strategy)
                        ELSE Ok(fs)
       IN  ui' = IF ~(1 <= frame_count /\ frame_count <= 64)
                      \/ ~(1 <= fps /\ fps <= 60)
                   THEN [ui EXCEPT !.stack = Popped,
                           !.last = [gen |-> Top.gen, how |-> "invalid",
                                     expired |-> FALSE, atlas |-> NoSheet,
                                     status |-> ui.status]]
                 ELSE IF reduced.status # "ok" THEN Failed(ui)
                 ELSE [ui EXCEPT !.status = "Creating sprite sheet...",
                         !.stack[Len(ui.stack)] =
                            [@ EXCEPT !.pc = "update2",
                                      !.gif = ui.current_frames,
                                      !.reduced = reduced.value,
                                      !.count = frame_count,
                                      !.optimize = optimize_colors]]
  /\ UNCHANGED <<frames, image, call, ret, web>>

\* lines 627-634: the atlas becomes the current sprite sheet
CreateSheet ==
  /\ AtTop("generate", "update2")
  /\ LET sheet == create_sprite_sheet(Top.reduced, TRUE, Top.count,
                                      Top.gif.size)
         atlas == [gen |-> Top.gen, gif |-> Top.gif.id, optimized |-> FALSE]
         made == [ui EXCEPT !.current_sprite_sheet = atlas,
                            !.stack[Len(ui.stack)].atlas = atlas]
     IN  ui' = IF sheet.status # "ok" THEN Failed(ui)
               ELSE IF ~Top.optimize THEN Completed(made, "plain")
               ELSE [made EXCEPT !.status = "Optimizing colors...",
                                 !.stack[Len(ui.stack)].pc = "update3"]
  /\ UNCHANGED <<frames, image, call, ret, web>>

\* lines 641-655: thread.start(), then the first turn of the waiting loop
StartWorker ==
  /\ AtTop("generate", "update3")
  /\ ui' = [ui EXCEPT !.worker[Top.gen].state = "started",
                      !.stack[Len(ui.stack)].pc = "wait"]
  /\ UNCHANGED <<frames, image, call, ret, web>>

\* the worker reads self.current_sprite_sheet (lines 645-647)
WorkerRead ==
  /\ \E g \in 1..MaxGenerations :
       /\ ui.worker[g].state = "started"
       /\ ui' = [ui EXCEPT !.worker[g] = [state |-> "running",
                                         input |-> ui.current_sprite_sheet]]
  /\ UNCHANGED <<frames, image, call, ret, web>>

\* optimize_sprite_sheet returns into result[0] or raises into error[0]
WorkerFinish ==
  /\ \E g \in 1..MaxGenerations, outcome \in {"finished", "raised"} :
       /\ ui.worker[g].state = "running"
       /\ ui' = [ui EXCEPT !.worker[g].state = outcome]
  /\ UNCHANGED <<frames, image, call, ret, web>>

Alive(w) == w.state \in {"started", "running"}

\* the loop `while thread.is_alive() and elapsed < timeout` ends: the thread
\* has ended, or it is alive and the 30 seconds have passed
LoopExit ==
  /\ AtTop("generate", "wait")
  /\ ui' = [ui EXCEPT !.stack[Len(ui.stack)] =
                        [@ EXCEPT !.pc = "decide",
                                  !.expired = Alive(ui.worker[Top.gen])]]
  /\ UNCHANGED <<frames, image, call, ret, web>>

\* lines 662-684: `if thread.is_alive()` / `elif error[0]` / else, and the
\* end of the handler
Decide ==
  /\ AtTop("generate", "decide")
  /\ LET w == ui.worker[Top.gen]
     IN  ui' = IF Alive(w) THEN Completed(ui, "timeout")
               ELSE IF w.state = "raised" THEN Completed(ui, "error")
               ELSE Completed([ui EXCEPT !.current_sprite_sheet =
                                           Optimized(w.input)], "optimized")
  /\ UNCHANGED <<frames, image, call, ret, web>>

\* the Save button's handler (lines 801-827): it refuses without a sheet;
\* the dialog is cancelled, or the status is set and root.update() runs
StartSave ==
  /\ Dispatchable
  /\ Len(ui.stack) < MaxDepth
  /\ ui.save_btn = "normal"
  /\ \E chosen \in BOOLEAN :
       ui' = IF ui.current_sprite_sheet = NoSheet THEN ui
             ELSE IF ~chosen THEN [ui EXCEPT !.status = "Save cancelled"]
             ELSE [ui EXCEPT !.status = "Saving sprite sheet...",
                             !.stack = Append(@, [kind |-> "save", gen |-> 0,
                                         pc |-> "save_update", gif |-> NoGif,
                                         reduced |-> <<>>, count |-> 0,
                                         optimize |-> FALSE,
                                         atlas |-> NoSheet,
                                         expired |-> FALSE])]
  /\ UNCHANGED <<frames, image, call, ret, web>>

\* lines 829-842: self.current_sprite_sheet is written to the file, or the
\* write raises
FinishSave ==
  /\ AtTop("save", "save_update")
  /\ \E written \in BOOLEAN :
       ui' = IF written
               THEN [ui EXCEPT !.stack = Popped,
                               !.saved = [sheet |-> ui.current_sprite_sheet,
                                          frames |-> ui.current_frames.id],
                               !.status = "Sprite sheet saved"]
               ELSE [ui EXCEPT !.stack = Popped,
                               !.status = "Error saving sprite sheet"]
  /\ UNCHANGED <<frames, image, call, ret, web>>

NextUI ==
  \/ StartLoad
  \/ FinishLoad
  \/ StartGenerate
  \/ ReadSettings
  \/ CreateSheet
  \/ StartWorker
  \/ WorkerRead
  \/ WorkerFinish
  \/ LoopExit
  \/ Decide
  \/ StartSave
  \/ FinishSave

SpecUI == Init /\ [][NextUI]_vars

(* --------------- the web bridge (eel_app.py): the calls ---------------- *)

\* the parameters FrameReducer.reduce_frames accepts besides self
ReduceFramesParameters == {"frames", "target_count", "strategy"}

\* a call of reduce_frames that passes the keyword arguments `keywords` next
\* to its three positional ones: Python binds the arguments before the body
\* runs and raises TypeError for a keyword the function does not have
reduce_frames_call(fs, target_count, strategy, keywords) ==
  IF keywords \subseteq ReduceFramesParameters
    THEN reduce_frames(fs, target_count, strategy)
    ELSE Raise("TypeError")

\* generate_sprite_sheet(settings) on STATE w (lines 197-259): the new STATE
\* and, in result, the message returned or the exception that left it.
\* optimizer_raises: optimize_sprite_sheet raises inside the try/except pass.
generate_sprite_sheet(w, settings, optimizer_raises) ==
  IF w.current_frames.len = 0 THEN [w EXCEPT !.result = "No GIF loaded"]
  ELSE
    LET fs == FramesOf(w.current_frames)
        frame_count == IF settings.frameCount = 0 THEN Len(fs)
                       ELSE settings.frameCount
        frames_initial == IF settings.removeEvery > 0
                            THEN remove_every(fs, settings.removeEvery)
                            ELSE Ok(fs)
        reduced == IF frames_initial.status # "ok" THEN frames_initial
                   ELSE reduce_frames_call(frames_initial.value, frame_count,
                                           "every_nth", {"nth"})
        sheet == IF reduced.status # "ok" THEN SheetError
                 ELSE create_sprite_sheet(reduced.value, TRUE,
                        Len(reduced.value), w.current_frames.size)
    IN  IF reduced.status # "ok" THEN [w EXCEPT !.result = reduced.status]
        ELSE IF sheet.status # "ok" THEN [w EXCEPT !.result = sheet.status]
        ELSE [w EXCEPT
                !.current_sprite_sheet =
                   [gif |-> w.current_frames.id, count |-> Len(sheet.value),
                    optimized |-> settings.optimize /\ ~optimizer_raises],
                !.last_frame_count = Len(reduced.value),
                !.last_fps = settings.fps,
                !.result = "Sprite sheet generated"]

\* the frameCount values the page sends (0: none)
WebFrameCounts == {0, 2, 65}

\* the fps values the page sends
WebFps == {10, 30}

\* load_gif(path) (lines 97-108): GIFProcessor raises for an unreadable file
\* before STATE is touched; otherwise the frames are replaced
WebLoadGif ==
  /\ \E g \in Gifs, loaded \in BOOLEAN :
       web' = IF loaded
                THEN [web EXCEPT !.current_frames = g, !.op = "load_gif",
                                 !.gif = g.id, !.settings = NoSettings,
                                 !.result = "loaded"]
                ELSE [web EXCEPT !.op = "load_gif", !.gif = g.id,
                                 !.settings = NoSettings,
                                 !.result = "FileNotFoundError"]
  /\ UNCHANGED <<frames, image, call, ret, ui>>

WebGenerate ==
  /\ \E fc \in WebFrameCounts, r \in 0..MaxKeep, optimize \in BOOLEAN,
        fps \in WebFps, optimizer_raises \in BOOLEAN :
       LET settings == [frameCount |-> fc, removeEvery |-> r,
                        optimize |-> optimize, fps |-> fps]
       IN  web' = [generate_sprite_sheet(web, settings, optimizer_raises)
                     EXCEPT !.op = "generate_sprite_sheet",
                            !.gif = web.current_frames.id,
                            !.settings = settings]
  /\ UNCHANGED <<frames, image, call, ret, ui>>

\* save_sprite_sheet (lines 262-294): refuses without a sheet, otherwise
\* writes STATE.current_sprite_sheet unless the dialog is cancelled
WebSave ==
  /\ \E chosen \in BOOLEAN :
       web' = IF web.current_sprite_sheet = NoWebSheet
                THEN [web EXCEPT !.op = "save_sprite_sheet",
                                 !.gif = web.current_frames.id,
                                 !.settings = NoSettings,
                                 !.result = "No sprite sheet to save."]
              ELSE IF ~chosen
                THEN [web EXCEPT !.op = "save_sprite_sheet",
                                 !.gif = web.current_frames.id,
                                 !.settings = NoSettings,
                                 !.result = "Save cancelled."]
              ELSE [web EXCEPT !.op = "save_sprite_sheet",
                               !.gif = web.current_frames.id,
                               !.settings = NoSettings,
                               !.saved = web.current_sprite_sheet,
                               !.result = "Saved"]
  /\ UNCHANGED <<frames, image, call, ret, ui>>

NextWeb ==
  \/ WebLoadGif
  \/ WebGenerate
  \/ WebSave

SpecWeb == Init /\ [][NextWeb]_vars

(* ============================ properties =============================== *)

IsReduce == call.op = "reduce_frames"

IsSheet == call.op = "create_sprite_sheet"

\* C1: for every L >= 0 and T >= 0, reduce_frames returns without raising;
\* with keep_ends, smart and uniform the result has exactly min(T, L)
\* frames, with every_nth at most min(T, L).
C1_ReduceLength ==
  IsReduce /\ call.strategy \in Strategies =>
    /\ ret.status = "ok"
    /\ call.strategy \in {"keep_ends", "smart", "uniform"} =>
         Len(ret.value) = Min(call.count, Len(frames))
    /\ call.strategy = "every_nth" =>
         Len(ret.value) <= Min(call.count, Len(frames))

\* C2: when target_count >= len(frames), reduce_frames (FrameReducer's and
\* GIFProcessor's) returns exactly the input frames in their order, whatever
\* the strategy, and the caller's sequence is still the one that was loaded.
C2_FullCopy ==
  call.op \in {"reduce_frames", "gif_reduce_frames"}
    /\ call.count >= Len(frames) =>
      /\ ret.status = "ok"
      /\ ret.value = frames
      /\ frames = [i \in 1..Len(frames) |-> i]

C2_Witness ==
  /\ IsReduce
  /\ call.strategy = "bogus"
  /\ Len(frames) = 3
  /\ call.count = 3
  /\ ret.value = <<1, 2, 3>>

\* C3: keep_ends with 2 <= T <= L returns exactly T frames, the first being
\* input[0] and the last input[L-1].
C3_KeepEnds ==
  IsReduce /\ call.strategy = "keep_ends"
    /\ 2 <= call.count /\ call.count <= Len(frames) =>
      /\ ret.status = "ok"
      /\ Len(ret.value) = call.count
      /\ ret.value[1] = frames[1]
      /\ ret.value[Len(ret.value)] = frames[Len(frames)]

\* 17 frames reduced to 13: the slot i = 11 is the one where the float
\* product truncates to index 14 instead of 15
C3_Witness ==
  /\ IsReduce
  /\ call.strategy = "keep_ends"
  /\ Len(frames) = 17
  /\ call.count = 13
  /\ Len(ret.value) = 13
  /\ ret.value[12] = frames[15]
  /\ ret.value[13] = frames[17]

\* C4: reduce_frames called with a strategy name outside the four known
\* ones fails with an input error and returns no frames, for every sequence
\* and every target_count.
C4_UnknownRejected ==
  IsReduce /\ call.strategy \notin Strategies =>
    /\ ret.status = "ValueError"
    /\ ret.value = <<>>

\* C5: determine_grid_layout is partitioned exactly at 4 and 16 (and covers
\* 17..64 with the 8x8 layout) and is monotonic: columns never decrease and
\* the cell size never increases as the frame count grows.
C5_GridLayout ==
  call.op = "determine_grid_layout" =>
    LET n == call.count
    IN  /\ ret.status = "ok"
        /\ n <= 4 => ret.layout = <<2, 2, 512>>
        /\ 5 <= n /\ n <= 16 => ret.layout = <<4, 4, 256>>
        /\ 17 <= n /\ n <= 64 => ret.layout = <<8, 8, 128>>
        /\ \A m \in 0..n :
             /\ determine_grid_layout(m)[1] <= ret.layout[1]
             /\ determine_grid_layout(m)[3] >= ret.layout[3]

C5_Witness ==
  /\ call.op = "determine_grid_layout"
  /\ call.count = 16
  /\ ret.layout = <<4, 4, 256>>

\* C6: for every non-empty sequence and every frame_count (or none), the
\* number of frames placed never exceeds cols x rows of the chosen layout
\* (at most 64), and every placed frame's cell lies inside the 1024x1024
\* canvas.
C6_InsideCanvas ==
  IsSheet /\ ret.status = "ok" =>
    /\ Len(ret.value) <= ret.layout[1] * ret.layout[2]
    /\ Len(ret.value) <= 64
    /\ \A k \in 1..Len(ret.value) :
         /\ ret.value[k].x + ret.value[k].cell <= 1024
         /\ ret.value[k].y + ret.value[k].cell <= 1024

\* C7: create_sprite_sheet returns a 1024x1024 canvas for every non-empty
\* sequence and every frame_count, and every layout tiles that canvas
\* exactly: cols * cell_size = rows * cell_size = 1024.
C7_FixedCanvas ==
  /\ IsSheet /\ Len(frames) > 0 =>
       /\ ret.status = "ok"
       /\ ret.size = <<1024, 1024>>
       /\ ret.layout[1] * ret.layout[3] = ret.size[1]
       /\ ret.layout[2] * ret.layout[3] = ret.size[2]
  /\ \A key \in DOMAIN GRID_LAYOUTS :
       /\ GRID_LAYOUTS[key][1] * GRID_LAYOUTS[key][3] = 1024
       /\ GRID_LAYOUTS[key][2] * GRID_LAYOUTS[key][3] = 1024

C7_Witness ==
  /\ IsSheet
  /\ Len(frames) = 9
  /\ call.given /\ call.count = 5
  /\ ret.size = <<1024, 1024>>
  /\ ret.layout = <<4, 4, 256>>

\* C8: create_sprite_sheet fails with an input error exactly when the
\* sequence is empty; otherwise it places exactly min(frame_count,
\* len(frames)) frames (all of them when frame_count is omitted), namely
\* frames 0 .. count-1 in order, each once, and none beyond that count.
C8_PlacedFrames ==
  IsSheet =>
    /\ ret.status = "ValueError" <=> Len(frames) = 0
    /\ Len(frames) > 0 =>
         LET count == IF call.given THEN Min(call.count, Len(frames))
                      ELSE Len(frames)
         IN  /\ ret.status = "ok"
             /\ Len(ret.value) = count
             /\ \A k \in 1..count : ret.value[k].frame = frames[k]
             /\ \A j, k \in 1..Len(ret.value) :
                  ret.value[j].frame = ret.value[k].frame => j = k

C8_Witness ==
  /\ IsSheet
  /\ Len(frames) = 7
  /\ call.given /\ call.count = 3
  /\ Len(ret.value) = 3
  /\ ret.value[3].frame = frames[3]

IsOptimize == call.op = "optimize_sprite_sheet"

\* C9: for every image with more unique colours than target_colors
\* (target_colors >= 1), optimize_sprite_sheet returns an image with at most
\* target_colors unique colours.
C9_AtMostTarget ==
  IsOptimize /\ call.count >= 1 /\ unique_colors(image) > call.count =>
    /\ ret.status = "ok"
    /\ unique_colors(ret.value) <= call.count

\* C10: for every image with at most target_colors unique colours,
\* optimize_sprite_sheet returns the input's pixel data unchanged, and no
\* palette is built or applied.
C10_Unchanged ==
  IsOptimize /\ unique_colors(image) <= call.count =>
    /\ ret.status = "ok"
    /\ ret.value = image
    /\ ret.palette = <<>>

C10_Witness ==
  /\ IsOptimize
  /\ Len(image) = 4
  /\ unique_colors(image) = 3
  /\ call.count = 3
  /\ ret.value = image

\* C11: optimize_sprite_sheet is idempotent for a fixed target: applied to
\* the image it returned, with the same target_colors >= 1, it returns that
\* image's pixel data again.
C11_Idempotent ==
  call.op = "optimize_again" =>
    /\ ret.status = "ok"
    /\ ret.value = call.input

\* the first call quantized the image and the second left the result alone
C11_Witness ==
  /\ call.op = "optimize_again"
  /\ call.count = 2
  /\ unique_colors(image) = 4
  /\ call.input # image
  /\ unique_colors(call.input) = 2
  /\ ret.value = call.input

\* C12: for every set of images with more than k unique colours and every
\* k >= 1, palette construction never raises and returns a non-empty palette
\* of at most k entries, also when k exceeds the number of sampled pixels.
C12_PaletteBuilt ==
  call.op = "create_optimized_palette" /\ call.count >= 1
    /\ unique_colors(image) > call.count =>
      /\ ret.status = "ok"
      /\ 1 <= Len(ret.palette)
      /\ Len(ret.palette) <= call.count

RgbDistance(p, e) ==
  (p[1] - e[1]) * (p[1] - e[1]) + (p[2] - e[2]) * (p[2] - e[2])
  + (p[3] - e[3]) * (p[3] - e[3])

\* C13: for every image and every non-empty palette, apply_palette returns
\* an image of the same dimensions in which each pixel is the full RGBA value
\* of the palette entry nearest to the input pixel over R, G, B only, the
\* lowest-indexed one on ties; no output pixel is outside the palette.
C13_NearestEntry ==
  call.op = "apply_palette" =>
    /\ ret.status = "ok"
    /\ Len(ret.value) = Len(image)
    /\ \A x \in 1..Len(image) :
         \E i \in 1..Len(call.input) :
           /\ ret.value[x] = call.input[i]
           /\ \A j \in 1..Len(call.input) :
                /\ RgbDistance(image[x], call.input[i])
                     <= RgbDistance(image[x], call.input[j])
                /\ j < i => RgbDistance(image[x], call.input[i])
                              < RgbDistance(image[x], call.input[j])

\* an opaque black pixel takes the transparent black entry listed first
C13_Witness ==
  /\ call.op = "apply_palette"
  /\ call.input = <<<<0, 0, 0, 0>>, <<0, 0, 0, 255>>, <<255, 0, 0, 255>>>>
  /\ image = <<<<0, 0, 0, 255>>, <<10, 20, 30, 255>>, <<255, 0, 0, 255>>>>
  /\ ret.value = <<<<0, 0, 0, 0>>, <<0, 0, 0, 0>>, <<255, 0, 0, 255>>>>

\* C14 as stated: the dimensions _resize_frame scales a frame to are at most
\* the frame's own, new_w <= w and new_h <= h (a frame is never upscaled).
C14_NeverUpscaled ==
  call.op = "_resize_frame" =>
    /\ ret.size[1] <= call.size[1]
    /\ ret.size[2] <= call.size[2]

\* C14 amended: the dimensions _resize_frame scales a frame to fit the cell
\* and fill it along the frame's longer side: new_w <= c, new_h <= c and the
\* larger of the two is exactly c, whether that scales the frame up or down.
C14_FitsCell ==
  call.op = "_resize_frame" =>
    /\ ret.size[1] <= call.count
    /\ ret.size[2] <= call.count
    /\ Max(ret.size[1], ret.size[2]) = call.count

\* a 100x100 frame in a 512 cell is scaled up to 512x512
C14_Witness ==
  /\ call.op = "_resize_frame"
  /\ call.size = <<100, 100>>
  /\ call.count = 512
  /\ ret.status = "ok"
  /\ ret.size = <<512, 512>>

\* the input indices (from 0) of the frames of a result
IndicesOf(v) == [i \in 1..Len(v) |-> v[i] - 1]

\* C15 as stated: reducing 10 frames to 5 with keep_ends selects the input
\* indices [0, a, b, c, 9] with a in {2, 3}, b in {4, 5} and c in {6, 7}.
C15_TenToFive ==
  IsReduce /\ call.strategy = "keep_ends"
    /\ Len(frames) = 10 /\ call.count = 5 =>
      /\ ret.status = "ok"
      /\ Len(ret.value) = 5
      /\ IndicesOf(ret.value)[1] = 0
      /\ IndicesOf(ret.value)[2] \in {2, 3}
      /\ IndicesOf(ret.value)[3] \in {4, 5}
      /\ IndicesOf(ret.value)[4] \in {6, 7}
      /\ IndicesOf(ret.value)[5] = 9

\* C15 amended: reducing 10 frames to 5 with keep_ends selects the input
\* indices [0, 2, 5, 8, 9] (step 8/3, slots floor(8/3), floor(16/3), 8).
C15_TenToFiveIndices ==
  IsReduce /\ call.strategy = "keep_ends"
    /\ Len(frames) = 10 /\ call.count = 5 =>
      /\ ret.status = "ok"
      /\ IndicesOf(ret.value) = <<0, 2, 5, 8, 9>>

C15_Witness ==
  /\ IsReduce
  /\ call.strategy = "keep_ends"
  /\ frames = <<1, 2, 3, 4, 5, 6, 7, 8, 9, 10>>
  /\ call.count = 5
  /\ ret.value = <<1, 3, 6, 9, 10>>

\* C16 as stated: with every_nth the result can have fewer than target_count
\* frames: there are lengths L > T >= 1, L not a multiple of T, for which
\* reduce_frames returns fewer than T frames.
\* (stated at each every_nth call: some sequence the program can load and
\* some target under-fill)
C16_CanUnderFill ==
  IsReduce /\ call.strategy = "every_nth" =>
    \E L \in 1..MaxFrames, T \in 1..MaxTarget :
      /\ L > T
      /\ L % T # 0
      /\ Len(reduce_frames([i \in 1..L |-> i], T, "every_nth").value) < T

\* C16 amended: with every_nth (n = max(1, L // T), indices 0, n, 2n, ...
\* until T are collected) the result never has fewer than target_count
\* frames: for every L > T >= 1, a multiple of T or not, it has exactly T.
C16_ExactlyTarget ==
  IsReduce /\ call.strategy = "every_nth"
    /\ 1 <= call.count /\ call.count < Len(frames) =>
      /\ ret.status = "ok"
      /\ Len(ret.value) = call.count

\* 10 frames, target 4: n = 2 and the indices 0, 2, 4, 6 are taken
C16_Witness ==
  /\ IsReduce
  /\ call.strategy = "every_nth"
  /\ Len(frames) = 10
  /\ call.count = 4
  /\ ret.value = <<1, 3, 5, 7>>

C18_Subsequence ==
  IsReduce /\ call.strategy \in Strategies /\ call.count >= 1 =>
    /\ ret.status = "ok"
    /\ \A i \in 1..Len(ret.value) :
         /\ IndicesOf(ret.value)[i] \in 0..(Len(frames) - 1)
         /\ frames[IndicesOf(ret.value)[i] + 1] = ret.value[i]
    /\ \A i \in 1..(Len(ret.value) - 1) :
         IndicesOf(ret.value)[i] < IndicesOf(ret.value)[i + 1]

\* 17 frames to 13 by keep_ends: the truncated float products still give
\* strictly increasing indices (slot 11 is index 14, slot 12 the end)
C18_Witness ==
  /\ IsReduce
  /\ call.strategy = "keep_ends"
  /\ Len(frames) = 17
  /\ call.count = 13
  /\ IndicesOf(ret.value)[11] = 13
  /\ IndicesOf(ret.value)[12] = 14
  /\ IndicesOf(ret.value)[13] = 16

\* the frames of fs at the positions p (from 0) with p % (r + 1) # r
RECURSIVE KeepDrop(_, _, _)
KeepDrop(fs, r, p) ==
  IF p >= Len(fs) THEN <<>>
  ELSE (IF p % (r + 1) # r THEN <<fs[p + 1]>> ELSE <<>>) \o KeepDrop(fs, r, p + 1)

\* C19: the frame reducer offers the pre-filter remove_every(frames, keep_r):
\* for keep_r = r > 0 it returns, in order, exactly the frames at positions p
\* with p % (r + 1) # r, and for keep_r = 0 the input sequence unchanged.
C19_RemoveEvery ==
  call.op = "remove_every" =>
    /\ ret.status = "ok"
    /\ ret.value = IF call.count > 0 THEN KeepDrop(frames, call.count, 0)
                                      ELSE frames

\* C20 as stated: in the desktop UI's generation, if the worker has not
\* finished when the 30-second budget expires, or if it raised, the
\* generation completes successfully with the unoptimized atlas it built as
\* the current sprite sheet; and a worker finishing never changes the
\* current sprite sheet.
C20_TimeoutFallback ==
  [][ /\ (\E g \in 1..MaxGenerations :
             ui.worker[g].state # ui'.worker[g].state)
          => ui'.current_sprite_sheet = ui.current_sprite_sheet
      /\ ui'.last # ui.last
           /\ (ui'.last.expired \/ ui'.last.how \in {"timeout", "error"})
          => /\ ui'.last.status = "Sprite sheet generated successfully"
             /\ ui'.current_sprite_sheet = ui'.last.atlas
             /\ ~ui'.current_sprite_sheet.optimized ]_vars

\* C21: for every image and every target_colors >= 1, with optimized the
\* image optimize_sprite_sheet returned, get_optimization_stats(image,
\* optimized) reports color_reduction = original_colors - optimized_colors,
\* and this is >= 0.
C21_ColorReduction ==
  call.op = "get_optimization_stats" /\ call.count >= 1 =>
    /\ ret.value.original_colors = Cardinality(Range(image))
    /\ ret.value.optimized_colors = Cardinality(Range(call.input))
    /\ ret.value.color_reduction =
         ret.value.original_colors - ret.value.optimized_colors
    /\ ret.value.color_reduction >= 0

\* four colours reduced to two
C21_Witness ==
  /\ call.op = "get_optimization_stats"
  /\ call.count = 2
  /\ ret.value.original_colors = 4
  /\ ret.value.optimized_colors = 2
  /\ ret.value.color_reduction = 2

\* C22: in create_sprite_sheet, frame i (0 <= i < frame_count) is pasted at
\* the cell with origin ((i mod cols) * cell_size, (i div cols) * cell_size);
\* two placed frames never share a cell, and the occupied cells are exactly
\* the first frame_count cells of the layout in row-major order (the other
\* cells are not written).
C22_RowMajorCells ==
  IsSheet /\ ret.status = "ok" =>
    LET cols == ret.layout[1]
        rows == ret.layout[2]
        cell == ret.layout[3]
    IN  /\ \A k \in 1..Len(ret.value) :
             /\ ret.value[k].x = ((k - 1) % cols) * cell
             /\ ret.value[k].y = ((k - 1) \div cols) * cell
             /\ ret.value[k].x \div cell < cols
             /\ ret.value[k].y \div cell < rows
        /\ \A j, k \in 1..Len(ret.value) :
             ret.value[j].x = ret.value[k].x /\ ret.value[j].y = ret.value[k].y
               => j = k
        /\ {(ret.value[k].y \div cell) * cols + ret.value[k].x \div cell :
               k \in 1..Len(ret.value)} = 0..(Len(ret.value) - 1)

\* C23: for every frame size (w, h) with w, h >= 1 and every cell size c of
\* the layouts, the resized dimensions satisfy new_w <= c and new_h <= c, the
\* centring offsets are ((c - new_w) // 2, (c - new_h) // 2), both >= 0, and
\* offset + resized dimension <= c on each axis: the resized frame lies
\* wholly inside its cell.
C23_InsideCell ==
  call.op = "_resize_frame" =>
    /\ ret.size[1] <= call.count
    /\ ret.size[2] <= call.count
    /\ ret.status = "ok" =>
         /\ ret.value = <<(call.count - ret.size[1]) \div 2,
                          (call.count - ret.size[2]) \div 2>>
         /\ \A a \in 1..2 :
              /\ ret.value[a] >= 0
              /\ ret.value[a] + ret.size[a] <= call.count

\* a 200x100 frame in a 256 cell: 256x128, centred 64 rows down
C23_Witness ==
  /\ call.op = "_resize_frame"
  /\ call.size = <<200, 100>>
  /\ call.count = 256
  /\ ret.size = <<256, 128>>
  /\ ret.value = <<0, 64>>

\* C24: for every frame count n it is called with, get_sprite_sheet_info(n)
\* reports total_cells = cols * rows of the layout chosen for n, n used
\* cells and unused_cells = total_cells - n with 0 <= unused_cells <=
\* total_cells (for n = 5: 4x4, 256-px cells, 5 used, 11 unused).
C24_SheetInfo ==
  call.op = "get_sprite_sheet_info" =>
    LET info == ret.value
        layout == determine_grid_layout(call.count)
    IN  /\ info.total_cells = layout[1] * layout[2]
        /\ info.frame_count = call.count
        /\ info.unused_cells = info.total_cells - call.count
        /\ 0 <= info.unused_cells
        /\ info.unused_cells <= info.total_cells
        /\ call.count = 5 =>
             /\ <<info.grid_width, info.grid_height>> = <<4, 4>>
             /\ info.frame_size = 256
             /\ info.unused_cells = 11

\* C25: with a GIF loaded, the web bridge's generate_sprite_sheet, for any
\* settings, runs the pre-filter (only when removeEvery > 0), reduce_frames,
\* the atlas from exactly the reduced frames and the optional optimization,
\* and always ends with current_sprite_sheet set, last_frame_count equal to
\* the number of frames placed and the message 'Sprite sheet generated'.
C25_WebPipeline ==
  web.op = "generate_sprite_sheet" /\ web.current_frames.len > 0 =>
    /\ web.result = "Sprite sheet generated"
    /\ web.current_sprite_sheet # NoWebSheet
    /\ web.current_sprite_sheet.gif = web.current_frames.id
    /\ web.last_frame_count = web.current_sprite_sheet.count

\* C26: in the desktop UI, whatever generation request or GIF load is
\* handled inside root.update() while a generation waits for its worker,
\* once all generation calls have returned current_sprite_sheet is the
\* result of the most recently started generation: a generation that ends
\* its wait never replaces the current sprite sheet by the optimization
\* result of an earlier started generation.
C26_LatestGenerationWins ==
  [][ (AtTop("generate", "decide")
         /\ ui'.current_sprite_sheet # ui.current_sprite_sheet)
        => ui'.current_sprite_sheet.gen >= ui.current_sprite_sheet.gen ]_vars

\* C27: after a new GIF has been loaded successfully, a sprite sheet
\* generated from a previously loaded GIF can no longer be saved: every file
\* a save has written holds a sheet generated from the frames that were
\* loaded when it was written.
C27_SaveCurrentGifOnly ==
  ui.saved # NoSaved => ui.saved.sheet.gif = ui.saved.frames

\* C28: palette entries are fixed points of apply_palette: for every palette
\* and every pixel whose RGBA value equals some entry of the palette,
\* apply_palette leaves the pixel unchanged in all four channels, also when
\* two entries have the same RGB and different alpha.
C28_PaletteFixedPoints ==
  call.op = "apply_palette" =>
    \A x \in 1..Len(image) :
      (\E i \in 1..Len(call.input) : call.input[i] = image[x])
        => ret.value[x] = image[x]

\* C29: for every strategy value the command line and the desktop window
\* offer (none, keep_ends, uniform, smart, every_nth) and every requested
\* frame count smaller than the number of loaded frames, reduce_frames
\* succeeds and returns frames: it rejects no offered strategy as unknown.
C29_OfferedStrategiesAccepted ==
  /\ call.op = "reduce_frames"
  /\ call.strategy \in OfferedStrategies
  /\ 1 <= call.count
  /\ call.count < Len(frames)
  => /\ ret.status = "ok"
     /\ Len(ret.value) >= 1

\* C30: for every source frame size (w, h) with w, h >= 1 and every cell
\* size in {512, 256, 128}, the dimensions _resize_frame computes satisfy
\* new_w >= 1 and new_h >= 1: no frame is resized to zero width or height.
C30_NoZeroSide ==
  call.op = "_resize_frame" /\ call.size[1] >= 1 /\ call.size[2] >= 1 =>
    /\ ret.size[1] >= 1
    /\ ret.size[2] >= 1

====
